---------------------------- MODULE Spec2Model ----------------------------
(***************************************************************************)
(* A model of the xlf-translator service: the two request pipelines        *)
(* processTranslation (api/process-xlf) and generateTranslationContext     *)
(* (api/generate-context.js) behind the Express routes of server.js.       *)
(*                                                                         *)
(* JavaScript strings are sequences of one-character strings, so that      *)
(* trimming, case mapping, substring search and the regular expressions of *)
(* the source are computed character by character.  JavaScript values are  *)
(* tagged records.  Wall-clock fields (processingTimeMs, timestamp) and    *)
(* console logging are left out: no decision of the code depends on them.  *)
(***************************************************************************)
EXTENDS Integers, Sequences, FiniteSets, TLC

VARIABLES
    apiKey,     \* process.env.CLAUDE_API_KEY is set
    endpoint,   \* the route of the request in flight, "none" when idle
    body,       \* req.body of the request in flight
    pc,         \* where the handler of the request in flight stands
    local,      \* the handler's local variables that outlive the await
    remote,     \* how the outbound call of this request ended
    trace,      \* what the handler has done so far for this request
    response    \* what the route handler sent to the caller

vars == <<apiKey, endpoint, body, pc, local, remote, trace, response>>

-----------------------------------------------------------------------------
(* Bounds of the model. *)

\* the longest chunkTexts array a request carries
MaxLen == 2
\* the longest sampleTexts array a request carries
MaxSamples == 3
\* the longest text handed to the Text Preprocessor on its own
MaxText == 4
\* the number of requests the server handles at the same time
MaxRequests == 2
\* the longest sample list handed to the pattern analysis on its own
MaxAnalysed == 3

-----------------------------------------------------------------------------
(* Strings. *)

Chars(s) == [i \in 1..Len(s) |-> SubSeq(s, i, i)]

\* letters outside ASCII that the keyword lists use, one element each
EAcute == "e'"
IAcute == "i'"
OAcute == "o'"

LowerAZ == Chars("abcdefghijklmnopqrstuvwxyz")
UpperAZ == Chars("ABCDEFGHIJKLMNOPQRSTUVWXYZ")
Digits == Chars("0123456789")

IndexOf(c, table) == CHOOSE i \in 1..Len(table) : table[i] = c

Range(f) == {f[i] : i \in DOMAIN f}

LowerLetters == Range(LowerAZ)
UpperLetters == Range(UpperAZ)

toUpperCaseChar(c) == IF c \in LowerLetters THEN UpperAZ[IndexOf(c, LowerAZ)] ELSE c

toLowerCaseChar(c) == IF c \in UpperLetters THEN LowerAZ[IndexOf(c, UpperAZ)] ELSE c

toUpperCase(s) == [i \in 1..Len(s) |-> toUpperCaseChar(s[i])]

toLowerCase(s) == [i \in 1..Len(s) |-> toLowerCaseChar(s[i])]

\* the class \s of a regular expression, which is also what trim() removes
WhiteSpace == {" ", "\t", "\n", "\r"}

\* the class \w
WordChars == LowerLetters \cup UpperLetters \cup Range(Digits) \cup {"_"}

\* String.prototype.includes
includes(s, sub) == \E i \in 0..(Len(s) - Len(sub)) : SubSeq(s, i + 1, i + Len(sub)) = sub

RECURSIVE trimStart(_)
trimStart(s) == IF s # <<>> /\ Head(s) \in WhiteSpace THEN trimStart(Tail(s)) ELSE s

RECURSIVE trimEnd(_)
trimEnd(s) == IF s # <<>> /\ s[Len(s)] \in WhiteSpace THEN trimEnd(SubSeq(s, 1, Len(s) - 1)) ELSE s

\* String.prototype.trim
trim(s) == trimEnd(trimStart(s))

\* Number.prototype.toString of a non-negative integer, in decimal
RECURSIVE toString(_)
toString(n) == IF n < 10 THEN <<Digits[n + 1]>> ELSE toString(n \div 10) \o <<Digits[(n % 10) + 1]>>

\* Array.prototype.join
RECURSIVE join(_, _)
join(list, sep) == IF list = <<>> THEN <<>> ELSE IF Len(list) = 1 THEN list[1] ELSE list[1] \o sep \o join(Tail(list), sep)

-----------------------------------------------------------------------------
(* JavaScript values. *)

Undefined == [t |-> "undefined"]
Null == [t |-> "null"]
Str(s) == [t |-> "string", chars |-> s]
Num(n) == [t |-> "number", num |-> n]
Arr(items) == [t |-> "array", items |-> items]
Obj(props) == [t |-> "object", props |-> props]

\* ToBoolean, as `!v` and `v ? a : b` apply it
Truthy(v) == CASE v.t = "undefined" -> FALSE [] v.t = "null" -> FALSE [] v.t = "string" -> v.chars # <<>> [] v.t = "number" -> v.num # 0 [] OTHER -> TRUE

isArray(v) == v.t = "array"

\* Object.keys: the own enumerable keys of a value
ObjectKeys(v) == CASE v.t = "object" -> DOMAIN v.props [] v.t = "array" -> {toString(i - 1) : i \in 1..Len(v.items)} [] v.t = "string" -> {toString(i - 1) : i \in 1..Len(v.chars)} [] OTHER -> {}

\* a destructuring default: `{ field = dflt } = requestData`
Default(v, dflt) == IF v.t = "undefined" THEN dflt ELSE v

-----------------------------------------------------------------------------
(* Text Preprocessor and Prompt Builder (process-xlf). *)

RECURSIVE collapseWhitespace(_)
\* text.replace(/\s+/g, ' '): every maximal run of white space becomes one space
collapseWhitespace(s) == IF s = <<>> THEN <<>> ELSE IF Head(s) \in WhiteSpace THEN <<" ">> \o collapseWhitespace(trimStart(s)) ELSE <<Head(s)>> \o collapseWhitespace(Tail(s))

\* preprocessTextForTranslation without the replace of white-space runs
preprocessTextForTranslation_TrimOnly(text) ==
    LET cleaned == trim(text)
    IN  IF cleaned = <<>> \/ Len(cleaned) = 0 THEN <<>>
        ELSE IF Len(cleaned) < 3 THEN cleaned
        ELSE cleaned

preprocessTextForTranslation(text) ==
    LET cleaned == trim(collapseWhitespace(text))
    IN  IF cleaned = <<>> \/ Len(cleaned) = 0 THEN <<>>
        ELSE IF Len(cleaned) < 3 THEN cleaned
        ELSE cleaned

\* the prompt, kept as the parts the template strings are filled with
buildTranslationPrompt(chunkTexts, sourceLang, targetLang, translationContext) ==
    IF Truthy(translationContext) /\ Len(trim(translationContext.chars)) > 0
    THEN [withContext |-> TRUE, guidance |-> translationContext.chars, count |-> Len(chunkTexts),
          sourceLang |-> sourceLang, targetLang |-> targetLang,
          lines |-> [i \in 1..Len(chunkTexts) |-> toString(i - 1) \o Chars(": \"") \o chunkTexts[i] \o Chars("\"")]]
    ELSE [withContext |-> FALSE, guidance |-> <<>>, count |-> Len(chunkTexts),
          sourceLang |-> sourceLang, targetLang |-> targetLang,
          lines |-> [i \in 1..Len(chunkTexts) |-> toString(i - 1) \o Chars(": \"") \o chunkTexts[i] \o Chars("\"")]]

-----------------------------------------------------------------------------
(* Fallback Synthesizer (process-xlf). *)

\* FallbackToken with the technical keyword tested before the occupational ones
FallbackToken_TechnicalFirst(index, targetLang, translationContext) ==
    LET lang == toUpperCase(targetLang)
        dflt == Chars("[") \o lang \o Chars("_TRANSLATION_") \o toString(index) \o Chars("]")
    IN  IF Truthy(translationContext)
        THEN LET ctx == toLowerCase(translationContext.chars)
             IN  IF includes(ctx, Chars("technical"))
                 THEN Chars("[TECHNICAL_") \o lang \o Chars("_") \o toString(index) \o Chars("]")
                 ELSE IF includes(ctx, Chars("occupational")) \/ includes(ctx, Chars("prl"))
                 THEN Chars("[WORKPLACE_SAFETY_") \o lang \o Chars("_") \o toString(index) \o Chars("]")
                 ELSE IF includes(ctx, Chars("educational"))
                 THEN Chars("[EDUCATIONAL_") \o lang \o Chars("_") \o toString(index) \o Chars("]")
                 ELSE dflt
        ELSE dflt

\* the placeholder of one non-empty text
FallbackToken(index, targetLang, translationContext) ==
    LET lang == toUpperCase(targetLang)
        dflt == Chars("[") \o lang \o Chars("_TRANSLATION_") \o toString(index) \o Chars("]")
    IN  IF Truthy(translationContext)
        THEN LET ctx == toLowerCase(translationContext.chars)
             IN  IF includes(ctx, Chars("occupational")) \/ includes(ctx, Chars("prl"))
                 THEN Chars("[WORKPLACE_SAFETY_") \o lang \o Chars("_") \o toString(index) \o Chars("]")
                 ELSE IF includes(ctx, Chars("technical"))
                 THEN Chars("[TECHNICAL_") \o lang \o Chars("_") \o toString(index) \o Chars("]")
                 ELSE IF includes(ctx, Chars("educational"))
                 THEN Chars("[EDUCATIONAL_") \o lang \o Chars("_") \o toString(index) \o Chars("]")
                 ELSE dflt
        ELSE dflt

\* generateContextualFallbacks numbering the placeholders from one
generateContextualFallbacks_OneBased(texts, targetLang, translationContext) ==
    Obj([k \in {toString(i - 1) : i \in 1..Len(texts)} |->
            LET i == CHOOSE j \in 1..Len(texts) : toString(j - 1) = k
            IN  IF texts[i] = <<>> \/ Len(trim(texts[i])) = 0
                THEN <<>>
                ELSE FallbackToken(i, targetLang, translationContext)])

\* the object built by texts.forEach: one property per index
generateContextualFallbacks(texts, targetLang, translationContext) ==
    Obj([k \in {toString(i - 1) : i \in 1..Len(texts)} |->
            LET i == CHOOSE j \in 1..Len(texts) : toString(j - 1) = k
            IN  IF texts[i] = <<>> \/ Len(trim(texts[i])) = 0
                THEN <<>>
                ELSE FallbackToken(i - 1, targetLang, translationContext)])

-----------------------------------------------------------------------------
(* The outbound call and the reply of the external model. *)

\* A reply text is a sequence whose elements are white-space characters, the
\* fence mark, the word json, and whole JSON documents (or text that is no JSON).
Fence == "fence"
Json == "json"

DocOne == "{\"0\":\"A\"}"
DocTwo == "{\"0\":\"A\",\"1\":\"B\"}"
DocStray == "{\"0\":\"A\",\"7\":\"Z\"}"
DocEmpty == "{}"
DocNull == "null"
DocNumber == "5"
NotJson == "Sorry, I cannot translate this."

\* what JSON.parse returns for each document
DocValue(doc) ==
    CASE doc = DocOne -> Obj([k \in {toString(0)} |-> Chars("A")])
      [] doc = DocTwo -> Obj([k \in {toString(0), toString(1)} |-> IF k = toString(0) THEN Chars("A") ELSE Chars("B")])
      [] doc = DocStray -> Obj([k \in {toString(0), toString(7)} |-> IF k = toString(0) THEN Chars("A") ELSE Chars("Z")])
      [] doc = DocEmpty -> Obj(<<>>)
      [] doc = DocNull -> Null
      [] doc = DocNumber -> Num(5)

Documents == {DocOne, DocTwo, DocStray, DocEmpty, DocNull, DocNumber}

RECURSIVE stripFences(_)
\* responseText.replace(/```json\s*|\s*```/g, ''), scanning from the left: at each
\* place the first alternative is tried before the second
stripFences(s) ==
    IF s = <<>> THEN <<>>
    ELSE IF Len(s) >= 2 /\ s[1] = Fence /\ s[2] = Json THEN stripFences(trimStart(SubSeq(s, 3, Len(s))))
    ELSE IF trimStart(s) # <<>> /\ Head(trimStart(s)) = Fence THEN stripFences(Tail(trimStart(s)))
    ELSE <<Head(s)>> \o stripFences(Tail(s))

\* JSON.parse: [ok |-> TRUE, value |-> v], or [ok |-> FALSE] when it throws SyntaxError
JSONparse(s) == IF Len(s) = 1 /\ s[1] \in Documents THEN [ok |-> TRUE, value |-> DocValue(s[1])] ELSE [ok |-> FALSE]

\* How one outbound exchange can end: fetch rejects; a non-success status; a
\* body that response.json() cannot read; a body whose data.content?.[0]?.text
\* is `text`.
Rejected == [k |-> "rejected"]
BadStatus == [k |-> "status"]
BadBody == [k |-> "badbody"]
Reply(text) == [k |-> "reply", text |-> text]
Pending == [k |-> "pending"]
NoCall == [k |-> "none"]

TranslationReplies ==
    {Undefined, Str(<<>>), Str(<<NotJson>>), Str(<<DocOne>>), Str(<<DocTwo>>), Str(<<DocStray>>),
     Str(<<DocEmpty>>), Str(<<DocNull>>), Str(<<DocNumber>>),
     Str(<<Fence, Json, "\n", DocTwo, "\n", Fence>>), Str(<<" ", Fence, Json, "\n", DocOne, "\n", Fence>>)}

TranslationOutcomes == {Rejected, BadStatus, BadBody} \cup {Reply(t) : t \in TranslationReplies}

\* translateWithClaude after the await: [ok |-> TRUE, value |-> translations],
\* or [ok |-> FALSE] when it throws
translateWithClaudeResume(outcome) ==
    IF outcome.k # "reply" THEN [ok |-> FALSE]
    ELSE IF ~Truthy(outcome.text) THEN [ok |-> FALSE]
    ELSE LET parsed == JSONparse(trim(stripFences(outcome.text.chars)))
         IN  IF ~parsed.ok THEN [ok |-> FALSE]
             ELSE IF parsed.value.t \in {"null", "undefined"} THEN [ok |-> FALSE]
             ELSE [ok |-> TRUE, value |-> parsed.value]

-----------------------------------------------------------------------------
(* The route handlers' common parts (server.js). *)

NoResponse == [status |-> 0]

\* res.json(result)
HttpOk(result) == [status |-> 200, body |-> result]

\* res.status(500).json({success: false, error: error.message, service})
HttpError(message, service) == [status |-> 500, body |-> [success |-> FALSE, error |-> message, service |-> service]]

\* nothing done yet for the request in flight
NoTrace == [validated |-> FALSE, preprocessed |-> FALSE, calls |-> 0, fallbacks |-> 0, source |-> "none", logged |-> [primary |-> "none"]]

NoLocal == [t |-> "none"]

-----------------------------------------------------------------------------
(* Translation Orchestrator (process-xlf). *)

\* the texts, target languages and contextual guidance the requests are drawn from
TextSamples == {Chars(""), Chars(" \t "), Chars("Hello world"), Chars(" a  b\n")}

LangSamples == {Undefined, Str(Chars("")), Str(Chars("fr")), Str(Chars("De"))}

GuidanceSamples ==
    {Undefined, Str(Chars("")), Str(Chars("  ")), Str(Chars("General notes")), Str(Chars("PRL")),
     Str(Chars("Occupational and technical")), Str(Chars("Technical, educational")),
     Str(Chars("EDUCATIONAL content"))}

SeqsUpTo(S, n) == UNION {[1..m -> S] : m \in 0..n}

ChunkTextsSamples == {Undefined, Null, Str(Chars("Hello world"))} \cup {Arr(a) : a \in SeqsUpTo(TextSamples, MaxLen)}

TranslationBodies ==
    [chunkTexts : ChunkTextsSamples, chunkIndex : {Undefined}, totalChunks : {Undefined},
     sourceLang : {Undefined}, targetLang : LangSamples, translationContext : GuidanceSamples]

\* ValidateTranslation without the check of an empty array
ValidateTranslation_AllowsEmpty(b) ==
    IF ~Truthy(b.chunkTexts) \/ ~isArray(b.chunkTexts) THEN "Missing or invalid chunkTexts array"
    ELSE IF ~Truthy(b.targetLang) THEN "Target language is required"
    ELSE "ok"

\* the parameter checks: the message of the Error thrown, or "ok"
ValidateTranslation(b) ==
    IF ~Truthy(b.chunkTexts) \/ ~isArray(b.chunkTexts) THEN "Missing or invalid chunkTexts array"
    ELSE IF ~Truthy(b.targetLang) THEN "Target language is required"
    ELSE IF Len(b.chunkTexts.items) = 0 THEN "chunkTexts array cannot be empty"
    ELSE "ok"

\* chunkTexts.map((text, i) => preprocessTextForTranslation(text, i))
PreprocessAll(chunkTexts) == [i \in 1..Len(chunkTexts) |-> preprocessTextForTranslation(chunkTexts[i])]

\* the object processTranslation returns
TranslationResult(b, processedTexts, translations) ==
    LET chunkIndex == Default(b.chunkIndex, Num(0))
        totalChunks == Default(b.totalChunks, Num(1))
        sourceLang == Default(b.sourceLang, Str(Chars("en")))
    IN  [success |-> TRUE,
         chunkIndex |-> chunkIndex,
         translations |-> translations,
         stats |-> [textsProcessed |-> Len(processedTexts),
                    realTranslations |-> Cardinality(ObjectKeys(translations)),
                    chunkComplete |-> TRUE,
                    contextualTranslation |-> Truthy(b.translationContext)],
         metadata |-> [sourceLang |-> sourceLang,
                       targetLang |-> b.targetLang,
                       chunkInfo |-> toString(chunkIndex.num + 1) \o Chars("/") \o toString(totalChunks.num)]]

\* POST /api/process-xlf with a body that processTranslation rejects
TranslationRejected(b) ==
    /\ pc = "idle"
    /\ ValidateTranslation(b) # "ok"
    /\ endpoint' = "process-xlf"
    /\ body' = b
    /\ response' = HttpError(ValidateTranslation(b), "process-xlf")
    /\ pc' = "responded"
    /\ UNCHANGED <<apiKey, local, remote, trace>>

\* POST /api/process-xlf without an API key: translateWithClaude throws before
\* any call is made, and the catch block runs the fallback
TranslationWithoutKey(b) ==
    /\ pc = "idle"
    /\ ValidateTranslation(b) = "ok"
    /\ ~apiKey
    /\ LET processedTexts == PreprocessAll(b.chunkTexts.items)
           translations == generateContextualFallbacks(processedTexts, b.targetLang.chars, b.translationContext)
       IN  /\ local' = [t |-> "process-xlf", processedTexts |-> processedTexts]
           /\ response' = HttpOk(TranslationResult(b, processedTexts, translations))
    /\ endpoint' = "process-xlf"
    /\ body' = b
    /\ trace' = [NoTrace EXCEPT !.validated = TRUE, !.preprocessed = TRUE, !.fallbacks = 1, !.source = "local"]
    /\ pc' = "responded"
    /\ UNCHANGED <<apiKey, remote>>

\* TranslationCallIssued with the fallback mapping built before the call
TranslationCallIssued_EagerFallback(b) ==
    /\ pc = "idle"
    /\ ValidateTranslation(b) = "ok"
    /\ apiKey
    /\ LET processedTexts == PreprocessAll(b.chunkTexts.items)
       IN  local' = [t |-> "process-xlf", processedTexts |-> processedTexts,
                     prompt |-> buildTranslationPrompt(processedTexts, Default(b.sourceLang, Str(Chars("en"))).chars,
                                                       b.targetLang.chars, b.translationContext)]
    /\ endpoint' = "process-xlf"
    /\ body' = b
    /\ remote' = Pending
    /\ trace' = [NoTrace EXCEPT !.validated = TRUE, !.preprocessed = TRUE, !.calls = 1, !.fallbacks = 1]
    /\ pc' = "awaiting"
    /\ UNCHANGED <<apiKey, response>>

\* POST /api/process-xlf with an API key: the handler runs up to `await fetch`
TranslationCallIssued(b) ==
    /\ pc = "idle"
    /\ ValidateTranslation(b) = "ok"
    /\ apiKey
    /\ LET processedTexts == PreprocessAll(b.chunkTexts.items)
       IN  local' = [t |-> "process-xlf", processedTexts |-> processedTexts,
                     prompt |-> buildTranslationPrompt(processedTexts, Default(b.sourceLang, Str(Chars("en"))).chars,
                                                       b.targetLang.chars, b.translationContext)]
    /\ endpoint' = "process-xlf"
    /\ body' = b
    /\ remote' = Pending
    /\ trace' = [NoTrace EXCEPT !.validated = TRUE, !.preprocessed = TRUE, !.calls = 1]
    /\ pc' = "awaiting"
    /\ UNCHANGED <<apiKey, response>>

\* the outbound call of the translation request completes or fails
TranslationCallSettles(outcome) ==
    /\ pc = "awaiting"
    /\ endpoint = "process-xlf"
    /\ remote' = outcome
    /\ pc' = "settled"
    /\ UNCHANGED <<apiKey, endpoint, body, local, trace, response>>

\* TranslationResumes without the try/catch around the remote attempt: the
\* error reaches the route handler
TranslationResumes_NoCatch ==
    /\ pc = "settled"
    /\ endpoint = "process-xlf"
    /\ LET attempt == translateWithClaudeResume(remote)
       IN  /\ response' = IF attempt.ok THEN HttpOk(TranslationResult(body, local.processedTexts, attempt.value))
                          ELSE HttpError("Claude API failed", "process-xlf")
           /\ trace' = IF attempt.ok THEN [trace EXCEPT !.source = "remote"] ELSE trace
    /\ pc' = "responded"
    /\ UNCHANGED <<apiKey, endpoint, body, local, remote>>

\* processTranslation resumes after the await, and the route handler responds
TranslationResumes ==
    /\ pc = "settled"
    /\ endpoint = "process-xlf"
    /\ LET attempt == translateWithClaudeResume(remote)
           translations == IF attempt.ok THEN attempt.value
                           ELSE generateContextualFallbacks(local.processedTexts, body.targetLang.chars, body.translationContext)
       IN  /\ response' = HttpOk(TranslationResult(body, local.processedTexts, translations))
           /\ trace' = IF attempt.ok THEN [trace EXCEPT !.source = "remote"]
                       ELSE [trace EXCEPT !.fallbacks = @ + 1, !.source = "local"]
    /\ pc' = "responded"
    /\ UNCHANGED <<apiKey, endpoint, body, local, remote>>

-----------------------------------------------------------------------------
(* Content Classifier (generate-context.js). *)

\* \b between s[p] and s[p + 1]: exactly one side is a word character
WordBoundary(s, p) == (p >= 1 /\ s[p] \in WordChars) # (p < Len(s) /\ s[p + 1] \in WordChars)

\* the places of s where a pattern that begins with \b can match
BoundaryStarts(s) == {i \in 1..Len(s) : WordBoundary(s, i - 1)}

\* WholeWordAt without the \b behind the word
WholeWordAt_NoEndBoundary(s, word, i) ==
    /\ s[i] = word[1]
    /\ i + Len(word) - 1 <= Len(s)
    /\ SubSeq(s, i, i + Len(word) - 1) = word

\* the pattern \bword\b matches s from position i on, i one of BoundaryStarts(s)
WholeWordAt(s, word, i) ==
    /\ s[i] = word[1]
    /\ i + Len(word) - 1 <= Len(s)
    /\ SubSeq(s, i, i + Len(word) - 1) = word
    /\ WordBoundary(s, i + Len(word) - 1)

\* /\b(w1|w2|...)\b/.test(s)
TestWords(s, words) == \E i \in BoundaryStarts(s) : \E k \in 1..Len(words) : WholeWordAt(s, words[k], i)

RECURSIVE CountFrom(_, _, _)
\* a global regular expression takes the leftmost match and resumes behind it:
\* the number of matches taken among the places `at`, from position i on
CountFrom(at, size, i) ==
    LET rest == {p \in at : p >= i}
    IN  IF rest = {} THEN 0
        ELSE LET p == CHOOSE q \in rest : \A r \in rest : q <= r
             IN  1 + CountFrom(rest, size, p + size)

\* allContent.match(new RegExp(`\\b${keyword}\\b`, 'gi')): the number of
\* matches, 0 for null; starts is BoundaryStarts(s)
MatchCount(s, starts, keyword) == CountFrom({i \in starts : WholeWordAt(s, keyword, i)}, Len(keyword), 1)

UIWords == <<Chars("click"), Chars("button"), Chars("navigate"), Chars("select"), Chars("choose"), Chars("continue"), Chars("next"), Chars("previous"), Chars("start"), Chars("complete")>>

TechnicalWords == <<Chars("api"), Chars("system"), Chars("configuration"), Chars("database"), Chars("server"), Chars("technical"), Chars("setup"), Chars("install")>>

EducationalWords == <<Chars("lesson"), Chars("course"), Chars("learning"), Chars("training"), Chars("module"), Chars("chapter"), Chars("quiz"), Chars("student"), Chars("learn")>>

CorporateWords == <<Chars("company"), Chars("organization"), Chars("employee"), Chars("business"), Chars("corporate"), Chars("workplace"), Chars("team")>>

\* sampleTexts.join(' ').toLowerCase()
AllContent(sampleTexts) == toLowerCase(join(sampleTexts, Chars(" ")))

\* analyzeContentPatterns with the corporate rule evaluated first instead of last
analyzeContentPatterns_CorporateFirst(sampleTexts) ==
    LET allContent == AllContent(sampleTexts)
        analysis0 == [contentType |-> Chars("Educational/Training Content"),
                      recommendedTone |-> Chars("Professional"),
                      targetAudience |-> Chars("Learners"),
                      specialConsiderations |-> <<>>]
        analysis1 == IF TestWords(allContent, CorporateWords)
                     THEN [analysis0 EXCEPT !.contentType = Chars("Corporate Training"),
                                            !.targetAudience = Chars("Employees"),
                                            !.recommendedTone = Chars("Professional")]
                     ELSE analysis0
        analysis2 == IF TestWords(allContent, UIWords)
                     THEN [analysis1 EXCEPT !.specialConsiderations = @ \o <<Chars("UI elements"), Chars("interaction clarity")>>]
                     ELSE analysis1
        analysis3 == IF TestWords(allContent, TechnicalWords)
                     THEN [analysis2 EXCEPT !.recommendedTone = Chars("Technical"),
                                            !.targetAudience = Chars("Technical Users"),
                                            !.specialConsiderations = @ \o <<Chars("technical accuracy")>>]
                     ELSE analysis2
        analysis4 == IF TestWords(allContent, EducationalWords)
                     THEN [analysis3 EXCEPT !.contentType = Chars("E-Learning Platform"),
                                            !.specialConsiderations = @ \o <<Chars("learning flow")>>]
                     ELSE analysis3
    IN  analysis4

analyzeContentPatterns(sampleTexts) ==
    LET allContent == AllContent(sampleTexts)
        analysis0 == [contentType |-> Chars("Educational/Training Content"),
                      recommendedTone |-> Chars("Professional"),
                      targetAudience |-> Chars("Learners"),
                      specialConsiderations |-> <<>>]
        analysis1 == IF TestWords(allContent, UIWords)
                     THEN [analysis0 EXCEPT !.specialConsiderations = @ \o <<Chars("UI elements"), Chars("interaction clarity")>>]
                     ELSE analysis0
        analysis2 == IF TestWords(allContent, TechnicalWords)
                     THEN [analysis1 EXCEPT !.recommendedTone = Chars("Technical"),
                                            !.targetAudience = Chars("Technical Users"),
                                            !.specialConsiderations = @ \o <<Chars("technical accuracy")>>]
                     ELSE analysis1
        analysis3 == IF TestWords(allContent, EducationalWords)
                     THEN [analysis2 EXCEPT !.contentType = Chars("E-Learning Platform"),
                                            !.specialConsiderations = @ \o <<Chars("learning flow")>>]
                     ELSE analysis2
        analysis4 == IF TestWords(allContent, CorporateWords)
                     THEN [analysis3 EXCEPT !.contentType = Chars("Corporate Training"),
                                            !.targetAudience = Chars("Employees"),
                                            !.recommendedTone = Chars("Professional")]
                     ELSE analysis3
    IN  analysis4

\* Object.keys(domains)
DomainKeys == <<"prl", "technical", "educational", "corporate">>

DomainName(key) ==
    CASE key = "prl" -> Chars("Occupational Health & Safety (PRL)")
      [] key = "technical" -> Chars("Technical & IT Training")
      [] key = "educational" -> Chars("Educational & E-Learning")
      [] key = "corporate" -> Chars("Corporate Training")

PrlKeywords ==
    <<Chars("prl"), Chars("prevenci") \o <<OAcute>> \o Chars("n"), Chars("riesgos laborales"),
      Chars("ergonom") \o <<IAcute>> \o Chars("a"), Chars("postura"), Chars("asiento"), Chars("respaldo"),
      Chars("estr") \o <<EAcute>> \o Chars("s laboral"), Chars("seguridad"), Chars("salud laboral"),
      Chars("workplace safety"), Chars("occupational health"), Chars("ergonomic"), Chars("posture"),
      Chars("safety guidelines"), Chars("health risks"), Chars("prevention")>>

TechnicalKeywords ==
    <<Chars("api"), Chars("system"), Chars("software"), Chars("configuration"), Chars("install"),
      Chars("database"), Chars("server"), Chars("code"), Chars("technical"), Chars("setup"), Chars("data"),
      Chars("process"), Chars("function"), Chars("network"), Chars("interface"), Chars("development")>>

EducationalKeywords ==
    <<Chars("lesson"), Chars("course"), Chars("learning"), Chars("training"), Chars("module"),
      Chars("chapter"), Chars("quiz"), Chars("assessment"), Chars("knowledge"), Chars("skill"),
      Chars("student"), Chars("learn"), Chars("teach"), Chars("education"), Chars("instruction")>>

CorporateKeywords ==
    <<Chars("company"), Chars("organization"), Chars("team"), Chars("department"), Chars("employee"),
      Chars("business"), Chars("corporate"), Chars("workplace"), Chars("professional"), Chars("management"),
      Chars("process"), Chars("procedure"), Chars("policy")>>

DomainKeywords(key) ==
    CASE key = "prl" -> PrlKeywords
      [] key = "technical" -> TechnicalKeywords
      [] key = "educational" -> EducationalKeywords
      [] key = "corporate" -> CorporateKeywords

RECURSIVE SumCounts(_, _, _, _)
\* domain.keywords.forEach: the weight grows by the matches of each keyword
SumCounts(s, starts, keywords, k) == IF k > Len(keywords) THEN 0 ELSE MatchCount(s, starts, keywords[k]) + SumCounts(s, starts, keywords, k + 1)

DomainWeights(allContent) ==
    LET starts == BoundaryStarts(allContent)
    IN  [key \in Range(DomainKeys) |-> SumCounts(allContent, starts, DomainKeywords(key), 1)]

RECURSIVE ReduceDominant_KeepsFirst(_, _, _)
\* ReduceDominant with >= for >: of equal weights the earlier key stays
ReduceDominant_KeepsFirst(weights, a, k) ==
    IF k > Len(DomainKeys) THEN a
    ELSE ReduceDominant_KeepsFirst(weights, IF weights[a] >= weights[DomainKeys[k]] THEN a ELSE DomainKeys[k], k + 1)

RECURSIVE ReduceDominant(_, _, _)
\* Object.keys(domains).reduce((a, b) => domains[a].weight > domains[b].weight ? a : b),
\* with a the accumulator and b the key at position k
ReduceDominant(weights, a, k) ==
    IF k > Len(DomainKeys) THEN a
    ELSE ReduceDominant(weights, IF weights[a] > weights[DomainKeys[k]] THEN a ELSE DomainKeys[k], k + 1)

\* Math.round of the quotient num / den of two naturals: halves round up
RoundDiv(num, den) == (2 * num + den) \div (2 * den)

Min(a, b) == IF a < b THEN a ELSE b

detectContentDomain(sampleTexts) ==
    LET weights == DomainWeights(AllContent(sampleTexts))
        dominantDomain == ReduceDominant(weights, DomainKeys[1], 2)
        maxWeight == weights[dominantDomain]
    IN  [primary |-> dominantDomain,
         description |-> DomainName(dominantDomain),
         confidence |-> IF maxWeight > 0 THEN Min(RoundDiv(maxWeight * 100, Len(sampleTexts)), 95) ELSE 50,
         weights |-> weights]

getTerminologyApproach(domain, targetLang) ==
    CASE domain = "prl" -> Chars("Professional ") \o targetLang \o Chars(" workplace safety terminology, technical precision for ergonomic and health concepts")
      [] domain = "technical" -> Chars("Technical ") \o targetLang \o Chars(" terminology with accuracy for system/software concepts, maintain English technical terms where standard")
      [] domain = "educational" -> Chars("Clear, accessible ") \o targetLang \o Chars(" with educational clarity, avoid overly technical jargon unless necessary")
      [] domain = "corporate" -> Chars("Professional business ") \o targetLang \o Chars(" terminology, formal register appropriate for corporate environment")
      [] OTHER -> Chars("Professional ") \o targetLang \o Chars(" terminology appropriate for the content domain")

-----------------------------------------------------------------------------
(* Context Generator (generate-context.js). *)

\* an array in a template string: Array.prototype.toString, which joins with ","
ArrayToString(list) == join(list, Chars(","))

generateEnhancedLocalContext(sampleTexts, userContext, targetLang) ==
    LET analysis == analyzeContentPatterns(sampleTexts)
        domainAnalysis == detectContentDomain(sampleTexts)
    IN  trim(Chars("**CONTENT TYPE**: ") \o analysis.contentType \o Chars("\n")
             \o Chars("**DOMAIN**: ") \o domainAnalysis.description \o Chars("\n")
             \o Chars("**TERMINOLOGY APPROACH**: ") \o getTerminologyApproach(domainAnalysis.primary, targetLang) \o Chars("\n")
             \o Chars("**TONE**: ") \o analysis.recommendedTone \o Chars("\n")
             \o Chars("**AUDIENCE**: ") \o analysis.targetAudience \o Chars("\n")
             \o Chars("**SPECIAL CONSIDERATIONS**: ") \o ArrayToString(analysis.specialConsiderations) \o Chars("\n")
             \o (IF Truthy(userContext) /\ Len(trim(userContext.chars)) > 0
                 THEN Chars("**USER REQUIREMENTS**: ") \o trim(userContext.chars) \o Chars("\n")
                 ELSE <<>>)
             \o Chars("**QUALITY STANDARDS**: Maintain XML structure integrity, preserve spacing, ensure ") \o targetLang \o Chars(" linguistic accuracy\n"))

\* sampleTexts.slice(0, 40): the number of samples the analysis prompt takes
SampleLimit == 40

\* the analysis prompt, kept as the parts the template string is filled with
buildContextPrompt(sampleTexts, userContext, targetLang) ==
    [sampleForAnalysis |-> join(SubSeq(sampleTexts, 1, Min(SampleLimit, Len(sampleTexts))), Chars("\n---\n")),
     userContext |-> IF Truthy(userContext) THEN userContext.chars ELSE <<>>,
     userRequirements |-> Truthy(userContext),
     targetLang |-> targetLang]

ContextReplies ==
    {Undefined, Str(<<>>), Str(Chars("  ")), Str(Chars("Translate formally, for software users.")),
     Str(Chars(" **CONTENT TYPE**: Technical\n**DOMAIN**: Technical Software\n"))}

ContextOutcomes == {Rejected, BadStatus, BadBody} \cup {Reply(t) : t \in ContextReplies}

\* generateContextWithClaudeResume without the check of an empty reply
generateContextWithClaudeResume_AcceptsEmpty(outcome) ==
    IF outcome.k # "reply" THEN [ok |-> FALSE]
    ELSE IF outcome.text.t # "string" THEN [ok |-> FALSE]
    ELSE [ok |-> TRUE, value |-> trim(outcome.text.chars)]

\* generateContextWithClaude after the await: [ok |-> TRUE, value |-> text], or
\* [ok |-> FALSE] when it throws
generateContextWithClaudeResume(outcome) ==
    IF outcome.k # "reply" THEN [ok |-> FALSE]
    ELSE IF ~Truthy(outcome.text) THEN [ok |-> FALSE]
    ELSE [ok |-> TRUE, value |-> trim(outcome.text.chars)]

\* the samples and the user guidance the context requests are drawn from
ErgonomiaFive ==
    Chars("ergonom") \o <<IAcute>> \o Chars("a Ergonom") \o <<IAcute>> \o Chars("a ergonom") \o <<IAcute>>
        \o Chars("a, ergonom") \o <<IAcute>> \o Chars("a ergonom") \o <<IAcute>> \o Chars("a")

SampleTextSamples == {Chars("Click continue to proceed"), ErgonomiaFive, Chars("Team server processes")}

UserContextSamples == {Undefined, Str(Chars("")), Str(Chars("  ")), Str(Chars(" Keep it formal "))}

ContextLangSamples == {Undefined, Str(Chars("de"))}

SampleTextsSamples == {Undefined, Null, Str(Chars("Click continue to proceed"))} \cup {Arr(a) : a \in SeqsUpTo(SampleTextSamples, MaxSamples)}

ContextBodies ==
    [sampleTexts : SampleTextsSamples, userContext : UserContextSamples,
     targetLang : ContextLangSamples, contentType : {Undefined}]

\* the destructuring of requestData with its defaults
ContextParams(b) ==
    [sampleTexts |-> Default(b.sampleTexts, Arr(<<>>)),
     userContext |-> Default(b.userContext, Str(Chars(""))),
     targetLang |-> Default(b.targetLang, Str(Chars("es"))),
     contentType |-> Default(b.contentType, Str(Chars("educational")))]

\* the parameter checks: the message of the Error thrown, or "ok"
ValidateContext(b) ==
    LET sampleTexts == ContextParams(b).sampleTexts
    IN  IF ~Truthy(sampleTexts) \/ ~isArray(sampleTexts) THEN "Missing or invalid sampleTexts array"
        ELSE IF Len(sampleTexts.items) = 0 THEN "sampleTexts array cannot be empty"
        ELSE "ok"

\* the object generateTranslationContext returns
ContextResult(b, translationContext) ==
    LET p == ContextParams(b)
    IN  [success |-> TRUE,
         translationContext |-> translationContext,
         stats |-> [sampleTextsAnalyzed |-> Len(p.sampleTexts.items),
                    contextLength |-> Len(translationContext),
                    userContextProvided |-> Truthy(p.userContext)],
         metadata |-> [targetLang |-> p.targetLang,
                       contentType |-> p.contentType,
                       generationMethod |-> IF includes(translationContext, Chars("**CONTENT TYPE**")) THEN "claude" ELSE "local"]]

\* the catch block of generateTranslationContext
LocalContext(b) ==
    LET p == ContextParams(b)
    IN  generateEnhancedLocalContext(p.sampleTexts.items, p.userContext, p.targetLang.chars)

\* what generateEnhancedLocalContext logs of its domain analysis
LoggedDomain(b) == detectContentDomain(ContextParams(b).sampleTexts.items)

\* POST /api/generate-context with a body that generateTranslationContext rejects
ContextRejected(b) ==
    /\ pc = "idle"
    /\ ValidateContext(b) # "ok"
    /\ endpoint' = "generate-context"
    /\ body' = b
    /\ response' = HttpError(ValidateContext(b), "generate-context")
    /\ pc' = "responded"
    /\ UNCHANGED <<apiKey, local, remote, trace>>

\* POST /api/generate-context without an API key: generateContextWithClaude
\* throws before any call is made, and the catch block analyses locally
ContextWithoutKey(b) ==
    /\ pc = "idle"
    /\ ValidateContext(b) = "ok"
    /\ ~apiKey
    /\ response' = HttpOk(ContextResult(b, LocalContext(b)))
    /\ endpoint' = "generate-context"
    /\ body' = b
    /\ local' = [t |-> "generate-context"]
    /\ trace' = [NoTrace EXCEPT !.validated = TRUE, !.fallbacks = 1, !.source = "local", !.logged = LoggedDomain(b)]
    /\ pc' = "responded"
    /\ UNCHANGED <<apiKey, remote>>

\* POST /api/generate-context with an API key: the handler runs up to `await fetch`
ContextCallIssued(b) ==
    /\ pc = "idle"
    /\ ValidateContext(b) = "ok"
    /\ apiKey
    /\ LET p == ContextParams(b)
       IN  local' = [t |-> "generate-context",
                     prompt |-> buildContextPrompt(p.sampleTexts.items, p.userContext, p.targetLang.chars)]
    /\ endpoint' = "generate-context"
    /\ body' = b
    /\ remote' = Pending
    /\ trace' = [NoTrace EXCEPT !.validated = TRUE, !.calls = 1]
    /\ pc' = "awaiting"
    /\ UNCHANGED <<apiKey, response>>

\* the outbound call of the context request completes or fails
ContextCallSettles(outcome) ==
    /\ pc = "awaiting"
    /\ endpoint = "generate-context"
    /\ remote' = outcome
    /\ pc' = "settled"
    /\ UNCHANGED <<apiKey, endpoint, body, local, trace, response>>

\* generateTranslationContext resumes after the await, and the route handler responds
ContextResumes ==
    /\ pc = "settled"
    /\ endpoint = "generate-context"
    /\ LET attempt == generateContextWithClaudeResume(remote)
       IN  /\ response' = HttpOk(ContextResult(body, IF attempt.ok THEN attempt.value ELSE LocalContext(body)))
           /\ trace' = IF attempt.ok THEN [trace EXCEPT !.source = "remote"]
                       ELSE [trace EXCEPT !.fallbacks = @ + 1, !.source = "local", !.logged = LoggedDomain(body)]
    /\ pc' = "responded"
    /\ UNCHANGED <<apiKey, endpoint, body, local, remote>>

-----------------------------------------------------------------------------
(* The service. *)

\* the response has gone out; the next request can be taken
Close ==
    /\ pc = "responded"
    /\ pc' = "idle"
    /\ endpoint' = "none"
    /\ body' = Undefined
    /\ local' = NoLocal
    /\ remote' = NoCall
    /\ trace' = NoTrace
    /\ response' = NoResponse
    /\ UNCHANGED apiKey

Init ==
    /\ apiKey \in BOOLEAN
    /\ endpoint = "none"
    /\ body = Undefined
    /\ pc = "idle"
    /\ local = NoLocal
    /\ remote = NoCall
    /\ trace = NoTrace
    /\ response = NoResponse

\* the service as the callers of POST /api/process-xlf see it
TranslationNext ==
    \/ \E b \in TranslationBodies : TranslationRejected(b)
    \/ \E b \in TranslationBodies : TranslationWithoutKey(b)
    \/ \E b \in TranslationBodies : TranslationCallIssued(b)
    \/ \E outcome \in TranslationOutcomes : TranslationCallSettles(outcome)
    \/ TranslationResumes
    \/ Close

\* the service as the callers of POST /api/generate-context see it
ContextNext ==
    \/ \E b \in ContextBodies : ContextRejected(b)
    \/ \E b \in ContextBodies : ContextWithoutKey(b)
    \/ \E b \in ContextBodies : ContextCallIssued(b)
    \/ \E outcome \in ContextOutcomes : ContextCallSettles(outcome)
    \/ ContextResumes
    \/ Close

Next == TranslationNext \/ ContextNext

Spec == Init /\ [][Next]_vars

TranslationSpec == Init /\ [][TranslationNext]_vars

ContextSpec == Init /\ [][ContextNext]_vars

\* The continuation of a handler whose outbound call has settled: every step
\* of Next that leaves a settled state is TranslationResumes or ContextResumes.
HandlerContinues == pc = "settled" /\ pc' = "responded"

\* The event loop runs the continuation of a settled promise.
FairSpec == Spec /\ WF_pc(HandlerContinues)

FairTranslationSpec == TranslationSpec /\ WF_pc(HandlerContinues)

-----------------------------------------------------------------------------
(* The Text Preprocessor on its own: preprocessTextForTranslation applied to *)
(* a text, and then to its own result.                                       *)

\* the characters the texts are made of: three kinds of white space, two letters
TextAlphabet == {" ", "\t", "\n", "a", "b"}

TextInputs == SeqsUpTo(TextAlphabet, MaxText)

PreprocessInit ==
    /\ apiKey = FALSE
    /\ endpoint = "preprocess"
    /\ body \in {Str(text) : text \in TextInputs}
    /\ pc = "idle"
    /\ local = NoLocal
    /\ remote = NoCall
    /\ trace = NoTrace
    /\ response = NoResponse

\* preprocessTextForTranslation(text, index)
PreprocessCalled ==
    /\ endpoint = "preprocess"
    /\ pc = "idle"
    /\ local' = [t |-> "preprocess", first |-> preprocessTextForTranslation(body.chars)]
    /\ pc' = "once"
    /\ UNCHANGED <<apiKey, endpoint, body, remote, trace, response>>

\* preprocessTextForTranslation applied to what it returned
PreprocessCalledAgain ==
    /\ endpoint = "preprocess"
    /\ pc = "once"
    /\ local' = [t |-> "preprocess", first |-> local.first, second |-> preprocessTextForTranslation(local.first)]
    /\ pc' = "twice"
    /\ UNCHANGED <<apiKey, endpoint, body, remote, trace, response>>

PreprocessNext == PreprocessCalled \/ PreprocessCalledAgain

PreprocessSpec == PreprocessInit /\ [][PreprocessNext]_vars

-----------------------------------------------------------------------------
(* The pattern analysis on its own: analyzeContentPatterns applied to a list *)
(* of samples.                                                               *)

\* samples for each rule group, one in capitals, one that only holds a rule's
\* word inside a longer word, and one without any rule's word
AnalysedSamples ==
    {Chars("Click"), Chars("SERVER setup"), Chars("Quiz"), Chars("Team"), Chars("nextstep teams"), Chars("plain words")}

AnalysisInit ==
    /\ apiKey = FALSE
    /\ endpoint = "analysis"
    /\ body \in {Arr(list) : list \in SeqsUpTo(AnalysedSamples, MaxAnalysed) \ {<<>>}}
    /\ pc = "idle"
    /\ local = NoLocal
    /\ remote = NoCall
    /\ trace = NoTrace
    /\ response = NoResponse

\* analyzeContentPatterns(sampleTexts)
AnalysisCalled ==
    /\ endpoint = "analysis"
    /\ pc = "idle"
    /\ local' = [t |-> "analysis", analysis |-> analyzeContentPatterns(body.items)]
    /\ pc' = "once"
    /\ UNCHANGED <<apiKey, endpoint, body, remote, trace, response>>

AnalysisNext == AnalysisCalled

AnalysisSpec == AnalysisInit /\ [][AnalysisNext]_vars

-----------------------------------------------------------------------------
(* Several requests in flight.  Node runs one handler at a time and switches *)
(* between handlers only at an await, so a handler's run from one await to   *)
(* the next is one step.  Here endpoint, body, pc, local, remote and         *)
(* response hold one value per request; trace.lastTexts is the value of      *)
(* processedTexts computed most recently by any handler.                     *)

Requests == 1..MaxRequests

\* the bodies and call outcomes of the requests handled side by side
ConcurrentTranslationBodies ==
    {b \in TranslationBodies :
        /\ b.chunkTexts \in {Arr(<<>>), Arr(<<Chars("Hello world")>>), Arr(<<Chars(" a  b\n"), Chars("")>>)}
        /\ b.targetLang = Str(Chars("fr"))
        /\ b.translationContext = Undefined}

ConcurrentContextBodies ==
    {b \in ContextBodies :
        /\ b.sampleTexts \in {Arr(<<Chars("Click continue to proceed")>>), Arr(<<Chars("Team server processes")>>)}
        /\ b.userContext = Undefined
        /\ b.targetLang = Undefined}

ConcurrentOutcomes(route) ==
    IF route = "process-xlf" THEN {Rejected, Reply(Str(<<DocOne>>))}
    ELSE {BadStatus, Reply(Str(Chars("Translate formally, for software users.")))}

\* ResumeTexts reading a variable that all handlers share instead of its own
ResumeTexts_ModuleLevel(r) == trace.lastTexts

\* processedTexts as the handler of request r sees it after its await: the
\* const of its own invocation of processTranslation
ResumeTexts(r) == local[r].processedTexts

\* a handler from its start to its first await, or to its response if it
\* reaches none: what it leaves in pc, local, remote and response
HandlerStarts(key, route, b) ==
    IF route = "process-xlf"
    THEN IF ValidateTranslation(b) # "ok"
         THEN [pc |-> "responded", local |-> NoLocal, remote |-> NoCall,
               response |-> HttpError(ValidateTranslation(b), "process-xlf")]
         ELSE LET processedTexts == PreprocessAll(b.chunkTexts.items)
              IN  IF ~key
                  THEN [pc |-> "responded", local |-> [t |-> "process-xlf", processedTexts |-> processedTexts], remote |-> NoCall,
                        response |-> HttpOk(TranslationResult(b, processedTexts,
                                         generateContextualFallbacks(processedTexts, b.targetLang.chars, b.translationContext)))]
                  ELSE [pc |-> "awaiting", local |-> [t |-> "process-xlf", processedTexts |-> processedTexts], remote |-> Pending,
                        response |-> NoResponse]
    ELSE IF ValidateContext(b) # "ok"
         THEN [pc |-> "responded", local |-> NoLocal, remote |-> NoCall,
               response |-> HttpError(ValidateContext(b), "generate-context")]
         ELSE IF ~key
              THEN [pc |-> "responded", local |-> [t |-> "generate-context"], remote |-> NoCall,
                    response |-> HttpOk(ContextResult(b, LocalContext(b)))]
              ELSE [pc |-> "awaiting", local |-> [t |-> "generate-context"], remote |-> Pending, response |-> NoResponse]

\* a handler from the end of its outbound call to its response
HandlerResumes(route, b, processedTexts, outcome) ==
    IF route = "process-xlf"
    THEN LET attempt == translateWithClaudeResume(outcome)
         IN  HttpOk(TranslationResult(b, processedTexts,
                 IF attempt.ok THEN attempt.value
                 ELSE generateContextualFallbacks(processedTexts, b.targetLang.chars, b.translationContext)))
    ELSE LET attempt == generateContextWithClaudeResume(outcome)
         IN  HttpOk(ContextResult(b, IF attempt.ok THEN attempt.value ELSE LocalContext(b)))

ConcurrentInit ==
    /\ apiKey \in BOOLEAN
    /\ endpoint = [r \in Requests |-> "none"]
    /\ body = [r \in Requests |-> Undefined]
    /\ pc = [r \in Requests |-> "idle"]
    /\ local = [r \in Requests |-> NoLocal]
    /\ remote = [r \in Requests |-> NoCall]
    /\ response = [r \in Requests |-> NoResponse]
    /\ trace = [lastTexts |-> <<>>]

\* request r arrives and its handler runs to its first await or to its response
RequestArrives(r, route, b) ==
    /\ pc[r] = "idle"
    /\ LET next == HandlerStarts(apiKey, route, b)
       IN  /\ pc' = [pc EXCEPT ![r] = next.pc]
           /\ local' = [local EXCEPT ![r] = next.local]
           /\ remote' = [remote EXCEPT ![r] = next.remote]
           /\ response' = [response EXCEPT ![r] = next.response]
           /\ trace' = IF next.local.t = "process-xlf" THEN [trace EXCEPT !.lastTexts = next.local.processedTexts] ELSE trace
    /\ endpoint' = [endpoint EXCEPT ![r] = route]
    /\ body' = [body EXCEPT ![r] = b]
    /\ UNCHANGED apiKey

\* the outbound call of request r completes or fails
RequestCallSettles(r, outcome) ==
    /\ pc[r] = "awaiting"
    /\ outcome \in ConcurrentOutcomes(endpoint[r])
    /\ remote' = [remote EXCEPT ![r] = outcome]
    /\ pc' = [pc EXCEPT ![r] = "settled"]
    /\ UNCHANGED <<apiKey, endpoint, body, local, trace, response>>

\* the handler of request r runs from its await to its response
RequestResumes(r) ==
    /\ pc[r] = "settled"
    /\ response' = [response EXCEPT ![r] =
           HandlerResumes(endpoint[r], body[r], IF endpoint[r] = "process-xlf" THEN ResumeTexts(r) ELSE <<>>, remote[r])]
    /\ pc' = [pc EXCEPT ![r] = "responded"]
    /\ UNCHANGED <<apiKey, endpoint, body, local, remote, trace>>

\* the response of request r has gone out; nothing of the request is kept
RequestCloses(r) ==
    /\ pc[r] = "responded"
    /\ pc' = [pc EXCEPT ![r] = "idle"]
    /\ endpoint' = [endpoint EXCEPT ![r] = "none"]
    /\ body' = [body EXCEPT ![r] = Undefined]
    /\ local' = [local EXCEPT ![r] = NoLocal]
    /\ remote' = [remote EXCEPT ![r] = NoCall]
    /\ response' = [response EXCEPT ![r] = NoResponse]
    /\ UNCHANGED <<apiKey, trace>>

ConcurrentNext ==
    \E r \in Requests :
        \/ \E b \in ConcurrentTranslationBodies : RequestArrives(r, "process-xlf", b)
        \/ \E b \in ConcurrentContextBodies : RequestArrives(r, "generate-context", b)
        \/ \E outcome \in ConcurrentOutcomes("process-xlf") \cup ConcurrentOutcomes("generate-context") : RequestCallSettles(r, outcome)
        \/ RequestResumes(r)
        \/ RequestCloses(r)

ConcurrentSpec == ConcurrentInit /\ [][ConcurrentNext]_vars

-----------------------------------------------------------------------------
(* Claims about the Translation Orchestrator. *)

TranslationResponded == endpoint = "process-xlf" /\ pc = "responded"

\* a body whose chunkTexts is missing, no sequence or empty, or whose targetLang is absent
C1_Invalid(b) == b.chunkTexts.t # "array" \/ Len(b.chunkTexts.items) = 0 \/ b.targetLang.t = "undefined"

\* C1: a translation request whose chunkTexts is missing, not a sequence or
\* empty, or whose targetLang is absent, fails: the caller gets success: false
\* and no TranslationResult, and nothing was preprocessed, no outbound call was
\* issued and the fallback did not run.
C1_ValidationFails ==
    (endpoint = "process-xlf" /\ C1_Invalid(body)) =>
        /\ pc = "responded"
        /\ response.status = 500
        /\ response.body.success = FALSE
        /\ "translations" \notin DOMAIN response.body
        /\ trace.preprocessed = FALSE
        /\ trace.calls = 0
        /\ trace.fallbacks = 0
        /\ remote = NoCall

C1_Witness ==
    /\ TranslationResponded
    /\ body.chunkTexts = Arr(<<Chars("Hello world")>>)
    /\ body.targetLang = Undefined
    /\ response.status = 500

\* the body is one that the code's parameter checks let through
C2_PassesValidation(b) == b.chunkTexts.t = "array" /\ Len(b.chunkTexts.items) > 0 /\ Truthy(b.targetLang)

\* C2: a translation request that passes validation is answered with
\* success = true, whatever the outcome of the remote attempt; and once the
\* outbound call has completed or failed the response follows.
C2_AlwaysSucceeds ==
    /\ []((TranslationResponded /\ C2_PassesValidation(body)) => (response.status = 200 /\ response.body.success = TRUE))
    /\ []((endpoint = "process-xlf" /\ pc = "settled") => <>(TranslationResponded /\ response.status = 200))

C2_Witness ==
    /\ TranslationResponded
    /\ remote = Reply(Str(<<NotJson>>))
    /\ response.status = 200
    /\ response.body.success = TRUE

\* the external model cannot be used: no credential, or the call fails
ModelUnusable == ~apiKey \/ remote.k \in {"rejected", "status", "badbody"}

\* the keys "0" .. "n-1"
IndexKeys(n) == {toString(i) : i \in 0..(n - 1)}

\* v is [TOKEN_INDEX] for the index i: a token of capitals and underscores, an
\* underscore and the decimal index, in square brackets
MatchesFallbackPattern(v, i) ==
    LET idx == toString(i)
        tokenLen == Len(v) - Len(idx) - 3
    IN  /\ tokenLen >= 1
        /\ v[1] = "["
        /\ v[Len(v)] = "]"
        /\ \A j \in 1..tokenLen : v[1 + j] \in UpperLetters \cup {"_"}
        /\ v[tokenLen + 2] = "_"
        /\ SubSeq(v, tokenLen + 3, Len(v) - 1) = idx

\* C3 as stated: with the external model unusable, the mapping has exactly
\* chunkTexts.length entries, the keys "0".."n-1", and every value matches the
\* fallback pattern [TOKEN_INDEX].
C3_Original ==
    (TranslationResponded /\ response.status = 200 /\ ModelUnusable) =>
        LET n == Len(body.chunkTexts.items)
            m == response.body.translations
        IN  /\ m.t = "object"
            /\ Cardinality(DOMAIN m.props) = n
            /\ DOMAIN m.props = IndexKeys(n)
            /\ \A i \in 0..(n - 1) : MatchesFallbackPattern(m.props[toString(i)], i)

\* C3, amended: with the external model unusable, the mapping has exactly
\* chunkTexts.length entries, the keys "0".."n-1"; the value of a text that is
\* empty or only white space is the empty string and every other value
\* matches the fallback pattern [TOKEN_INDEX].
C3_FallbackShape ==
    (TranslationResponded /\ response.status = 200 /\ ModelUnusable) =>
        LET n == Len(body.chunkTexts.items)
            m == response.body.translations
        IN  /\ m.t = "object"
            /\ Cardinality(DOMAIN m.props) = n
            /\ DOMAIN m.props = IndexKeys(n)
            /\ \A i \in 0..(n - 1) :
                  IF \A j \in DOMAIN body.chunkTexts.items[i + 1] : body.chunkTexts.items[i + 1][j] \in WhiteSpace
                  THEN m.props[toString(i)] = <<>>
                  ELSE MatchesFallbackPattern(m.props[toString(i)], i)

C3_Witness ==
    /\ TranslationResponded
    /\ response.status = 200
    /\ remote = BadStatus
    /\ body.chunkTexts = Arr(<<Chars(" a  b\n"), Chars(" \t ")>>)
    /\ response.body.translations.props[toString(0)] = Chars("[FR_TRANSLATION_0]")

\* s contains word, letter case aside
ContainsIgnoringCase(s, word) ==
    \E i \in 0..(Len(s) - Len(word)) : \A j \in 1..Len(word) : s[i + j] \in {word[j], toUpperCaseChar(word[j])}

\* the token the claim gives for a target language and a guidance value
C4_Token(lang, guidance) ==
    LET given == guidance.t = "string"
        g == IF given THEN guidance.chars ELSE <<>>
    IN  CASE given /\ (ContainsIgnoringCase(g, Chars("occupational")) \/ ContainsIgnoringCase(g, Chars("prl")))
                -> Chars("WORKPLACE_SAFETY_") \o toUpperCase(lang)
          [] given /\ ~ContainsIgnoringCase(g, Chars("occupational")) /\ ~ContainsIgnoringCase(g, Chars("prl"))
                   /\ ContainsIgnoringCase(g, Chars("technical"))
                -> Chars("TECHNICAL_") \o toUpperCase(lang)
          [] given /\ ~ContainsIgnoringCase(g, Chars("occupational")) /\ ~ContainsIgnoringCase(g, Chars("prl"))
                   /\ ~ContainsIgnoringCase(g, Chars("technical")) /\ ContainsIgnoringCase(g, Chars("educational"))
                -> Chars("EDUCATIONAL_") \o toUpperCase(lang)
          [] OTHER -> toUpperCase(lang) \o Chars("_TRANSLATION")

\* C4: the Fallback Synthesizer maps each empty preprocessed text to "" and
\* each other one, at index i, to [<TOKEN>_<i>], the token chosen by the first
\* keyword of the guidance in the order occupational/PRL, technical,
\* educational, and <TARGETLANG>_TRANSLATION without one; so ["Hello world", ""]
\* to "fr" without guidance gives {"0": "[FR_TRANSLATION_0]", "1": ""}.
C4_FallbackValues ==
    (TranslationResponded /\ trace.fallbacks > 0) =>
        LET texts == local.processedTexts
            m == response.body.translations
        IN  /\ \A i \in 0..(Len(texts) - 1) :
                  m.props[toString(i)] =
                      IF texts[i + 1] = <<>> THEN <<>>
                      ELSE Chars("[") \o C4_Token(body.targetLang.chars, body.translationContext)
                               \o Chars("_") \o toString(i) \o Chars("]")
            /\ (/\ body.chunkTexts = Arr(<<Chars("Hello world"), Chars("")>>)
                /\ body.targetLang = Str(Chars("fr"))
                /\ body.translationContext = Undefined)
               => m.props = [k \in {<<"0">>, <<"1">>} |-> IF k = <<"0">> THEN Chars("[FR_TRANSLATION_0]") ELSE Chars("")]

C4_Witness ==
    /\ TranslationResponded
    /\ trace.fallbacks > 0
    /\ body.chunkTexts = Arr(<<Chars("Hello world"), Chars("")>>)
    /\ body.targetLang = Str(Chars("De"))
    /\ body.translationContext = Str(Chars("Occupational and technical"))
    /\ response.body.translations.props[toString(0)] = Chars("[WORKPLACE_SAFETY_DE_0]")

-----------------------------------------------------------------------------
(* Claims about the Context Generator and the Content Classifier. *)

ContextResponded == endpoint = "generate-context" /\ pc = "responded"

\* the response carries a block that the local analysis produced
LocalBlockReturned == ContextResponded /\ response.status = 200 /\ trace.source = "local"

\* the remote attempt of the request in flight failed: no credential, a failed
\* call, a non-success status, an unreadable or empty body
RemoteAttemptFailed ==
    \/ ~apiKey
    \/ remote.k \in {"rejected", "status", "badbody"}
    \/ (remote.k = "reply" /\ (remote.text.t # "string" \/ remote.text.chars = <<>>))

\* C5: generateTranslationContext fails with a validation error exactly when
\* sampleTexts is missing, not a sequence or empty; every other request is
\* answered with success = true whatever the outcome of the remote attempt, and
\* when the remote attempt fails the block returned is the locally composed one.
C5_ContextValidationAndFallback ==
    ContextResponded =>
        LET invalid == body.sampleTexts.t # "array" \/ Len(body.sampleTexts.items) = 0
        IN  /\ invalid <=> (response.status = 500 /\ response.body.success = FALSE)
            /\ ~invalid => (response.status = 200 /\ response.body.success = TRUE)
            /\ (~invalid /\ RemoteAttemptFailed) => response.body.translationContext = LocalContext(body)

C5_Witness ==
    /\ ContextResponded
    /\ remote = Reply(Str(<<>>))
    /\ response.status = 200
    /\ response.body.success = TRUE
    /\ includes(response.body.translationContext, Chars("**DOMAIN**: Corporate Training"))

\* C6 as stated: generationMethod is "claude" exactly when the block returned
\* is the external model's reply, and "local" exactly when the local analysis
\* produced it.
C6_Original ==
    (ContextResponded /\ response.status = 200) =>
        /\ response.body.metadata.generationMethod = "claude" <=> trace.source = "remote"
        /\ response.body.metadata.generationMethod = "local" <=> trace.source = "local"

\* the largest of the four weights
MaxWeight(weights) == CHOOSE m \in {weights[k] : k \in DOMAIN weights} : \A k \in DOMAIN weights : weights[k] <= m

\* the positions in DomainKeys of the domains of greatest weight
HeaviestPositions(weights) == {i \in 1..Len(DomainKeys) : weights[DomainKeys[i]] = MaxWeight(weights)}

\* C7 as stated: of the domains of greatest weight the first in the order
\* (prl, technical, educational, corporate) is selected; without any keyword
\* match the confidence is 50 and the first domain of the order is selected.
C7_Original ==
    LocalBlockReturned =>
        LET w == trace.logged.weights
        IN  /\ \A i \in HeaviestPositions(w) : i >= IndexOf(trace.logged.primary, DomainKeys)
            /\ MaxWeight(w) = 0 => (trace.logged.confidence = 50 /\ trace.logged.primary = DomainKeys[1])

\* C7, amended: of the domains of greatest weight the last in the order (prl,
\* technical, educational, corporate) is selected; without any keyword match
\* the confidence is 50 and the last domain of the order, corporate, is selected.
C7_TieBreakLast ==
    LocalBlockReturned =>
        LET w == trace.logged.weights
        IN  /\ IndexOf(trace.logged.primary, DomainKeys) \in HeaviestPositions(w)
            /\ \A i \in HeaviestPositions(w) : i <= IndexOf(trace.logged.primary, DomainKeys)
            /\ MaxWeight(w) = 0 => (trace.logged.confidence = 50 /\ trace.logged.primary = "corporate")
            /\ includes(response.body.translationContext, Chars("**DOMAIN**: ") \o DomainName(trace.logged.primary) \o Chars("\n"))

C7_Witness ==
    /\ LocalBlockReturned
    /\ body.sampleTexts = Arr(<<Chars("Team server processes")>>)
    /\ trace.logged.weights["technical"] = 1
    /\ trace.logged.weights["corporate"] = 1
    /\ trace.logged.primary = "corporate"

\* word stands in s at position i with no word character next to it on either side
OccursAsWord(s, word, i) ==
    /\ s[i] = word[1]
    /\ i + Len(word) - 1 <= Len(s)
    /\ \A j \in 2..Len(word) : s[i + j - 1] = word[j]
    /\ (i = 1 \/ s[i - 1] \notin WordChars)
    /\ (i + Len(word) > Len(s) \/ s[i + Len(word)] \notin WordChars)

\* the places of s where a word begins
C8_WordStarts(s) == {i \in 1..Len(s) : s[i] \in WordChars /\ (i = 1 \/ s[i - 1] \notin WordChars)}

RECURSIVE C8_Weight(_, _, _, _)
\* the whole-word occurrences in s of the keywords from position k of the list
\* on; starts is C8_WordStarts(s)
C8_Weight(s, starts, keywords, k) ==
    IF k > Len(keywords) THEN 0
    ELSE Cardinality({i \in starts : OccursAsWord(s, keywords[k], i)}) + C8_Weight(s, starts, keywords, k + 1)

\* round(num / den): the integer nearest to the quotient, halves upwards
C8_Round(num, den) ==
    CHOOSE r \in ((num \div den) - 1)..((num \div den) + 1) : 2 * den * r <= 2 * num + den /\ 2 * num + den < 2 * den * (r + 1)

\* C8: for a non-empty sample list each domain's weight is the number of
\* whole-word matches of its keywords in the concatenated samples, the domain
\* selected has a weight that no other exceeds, and the confidence is
\* min(round(maxWeight / sampleCount * 100), 95) for a positive maxWeight and 50
\* otherwise; five occurrences of "ergonomia" alone select prl with confidence
\* min(round(5 / len(samples) * 100), 95).
C8_WeightsAndConfidence ==
    LocalBlockReturned =>
        LET samples == body.sampleTexts.items
            content == toLowerCase(join(samples, <<" ">>))
            starts == C8_WordStarts(content)
            w == [key \in Range(DomainKeys) |-> C8_Weight(content, starts, DomainKeywords(key), 1)]
            maxWeight == MaxWeight(w)
            d == trace.logged
        IN  /\ d.weights = w
            /\ w[d.primary] = maxWeight
            /\ d.confidence = IF maxWeight > 0 THEN Min(C8_Round(maxWeight * 100, Len(samples)), 95) ELSE 50
            /\ (w["prl"] = 5 /\ w["technical"] = 0 /\ w["educational"] = 0 /\ w["corporate"] = 0)
                   => (d.primary = "prl" /\ d.confidence = Min(C8_Round(500, Len(samples)), 95))

C8_Witness ==
    /\ LocalBlockReturned
    /\ body.sampleTexts = Arr(<<ErgonomiaFive, Chars("Click continue to proceed")>>)
    /\ trace.logged.weights["prl"] = 5
    /\ trace.logged.primary = "prl"
    /\ trace.logged.confidence = 95

\* a confidence under the cap that is rounded: round(2 / 3 * 100)
C8_WitnessRounded ==
    /\ LocalBlockReturned
    /\ Len(body.sampleTexts.items) = 3
    /\ trace.logged.weights["corporate"] = 2
    /\ trace.logged.confidence = 67

\* C9 as stated: on the fallback path the SPECIAL CONSIDERATIONS line lists the
\* tags of the matching rules, in the order detected, separated by a comma and
\* a space; for ["Click continue to proceed", "Click continue to proceed"] the
\* block contains "**CONTENT TYPE**" and "**SPECIAL CONSIDERATIONS**: UI
\* elements, interaction clarity".
C9_Original ==
    LocalBlockReturned =>
        LET block == response.body.translationContext
            tags == analyzeContentPatterns(body.sampleTexts.items).specialConsiderations
        IN  /\ includes(block, Chars("**SPECIAL CONSIDERATIONS**: ") \o join(tags, Chars(", ")) \o Chars("\n"))
            /\ body.sampleTexts = Arr(<<Chars("Click continue to proceed"), Chars("Click continue to proceed")>>)
                   => /\ includes(block, Chars("**CONTENT TYPE**"))
                      /\ includes(block, Chars("**SPECIAL CONSIDERATIONS**: UI elements, interaction clarity"))

\* the number of places where sub stands in s
Occurrences(s, sub) == Cardinality({i \in 0..(Len(s) - Len(sub)) : SubSeq(s, i + 1, i + Len(sub)) = sub})

\* the first place where sub stands in s
FirstPlace(s, sub) == CHOOSE i \in 0..(Len(s) - Len(sub)) : SubSeq(s, i + 1, i + Len(sub)) = sub /\ \A j \in 0..(i - 1) : SubSeq(s, j + 1, j + Len(sub)) # sub

FixedLabels ==
    <<Chars("**CONTENT TYPE**: "), Chars("**DOMAIN**: "), Chars("**TERMINOLOGY APPROACH**: "), Chars("**TONE**: "),
      Chars("**AUDIENCE**: "), Chars("**SPECIAL CONSIDERATIONS**: "), Chars("**QUALITY STANDARDS**: ")>>

UserRequirementsLabel == Chars("**USER REQUIREMENTS**: ")

\* C10 as stated: the local block has each labelled field exactly once, in the
\* order CONTENT TYPE, DOMAIN, TERMINOLOGY APPROACH, TONE, AUDIENCE, SPECIAL
\* CONSIDERATIONS, [USER REQUIREMENTS], QUALITY STANDARDS; it contains
\* "**DOMAIN**:"; and USER REQUIREMENTS is present exactly when user guidance
\* was given, which is when stats.userContextProvided is true.
C10_Original ==
    LocalBlockReturned =>
        LET block == response.body.translationContext
        IN  /\ \A k \in 1..Len(FixedLabels) : Occurrences(block, FixedLabels[k]) = 1
            /\ \A k \in 1..(Len(FixedLabels) - 1) : FirstPlace(block, FixedLabels[k]) < FirstPlace(block, FixedLabels[k + 1])
            /\ includes(block, Chars("**DOMAIN**:"))
            /\ Occurrences(block, UserRequirementsLabel) <= 1
            /\ includes(block, UserRequirementsLabel) <=> response.body.stats.userContextProvided
            /\ includes(block, UserRequirementsLabel) =>
                   /\ FirstPlace(block, FixedLabels[6]) < FirstPlace(block, UserRequirementsLabel)
                   /\ FirstPlace(block, UserRequirementsLabel) < FirstPlace(block, FixedLabels[7])

-----------------------------------------------------------------------------
(* Claims about the Text Preprocessor. *)

\* the characters of s that are not white space, in order
C11_Letters(s) == LET Visible(c) == c \notin WhiteSpace IN SelectSeq(s, Visible)

\* the number of words of s: the places where a character that is not white
\* space stands first or behind white space
C11_Words(s) == Cardinality({i \in 1..Len(s) : s[i] \notin WhiteSpace /\ (i = 1 \/ s[i - 1] \in WhiteSpace)})

\* C11: preprocessTextForTranslation returns a string without leading or
\* trailing white space and without two white-space characters in a row, every
\* run of white space between words having become one space; it returns the
\* empty string for an empty or white-space-only text; and applied to its own
\* result it returns that result.
C11_NormalizedFixedPoint ==
    (endpoint = "preprocess" /\ pc \in {"once", "twice"}) =>
        LET text == body.chars
            out == local.first
        IN  /\ out # <<>> => (out[1] \notin WhiteSpace /\ out[Len(out)] \notin WhiteSpace)
            /\ \A i \in 1..(Len(out) - 1) : ~(out[i] \in WhiteSpace /\ out[i + 1] \in WhiteSpace)
            /\ \A i \in 1..Len(out) : out[i] \in WhiteSpace => out[i] = " "
            /\ C11_Letters(out) = C11_Letters(text)
            /\ C11_Words(out) = C11_Words(text)
            /\ (\A i \in 1..Len(text) : text[i] \in WhiteSpace) => out = <<>>
            /\ pc = "twice" => local.second = out

C11_Witness ==
    /\ endpoint = "preprocess"
    /\ pc = "twice"
    /\ body = Str(<<"a", "\t", "\n", "b">>)
    /\ local.first = Chars("a b")
    /\ local.second = Chars("a b")

-----------------------------------------------------------------------------
(* Claims about the TranslationResult. *)

\* C12 as stated: in every TranslationResult, from the external model's reply
\* as well as from the fallback, every key of the translations mapping is the
\* decimal form of an index 0 .. chunkTexts.length - 1 of the request.
C12_Original ==
    (TranslationResponded /\ response.status = 200) =>
        ObjectKeys(response.body.translations) \subseteq IndexKeys(Len(body.chunkTexts.items))

-----------------------------------------------------------------------------
(* Claims about requests handled side by side. *)

\* the response to a request handled with no other request in flight
C13_Alone(key, route, b, outcome) ==
    LET start == HandlerStarts(key, route, b)
    IN  IF start.pc = "responded" THEN start.response
        ELSE HandlerResumes(route, b, IF route = "process-xlf" THEN start.local.processedTexts ELSE <<>>, outcome)

\* C13: with several requests in flight, interleaved at their awaits in any
\* order, the response to each request is the one it gets when handled alone,
\* and two requests with the same body and the same outcome of their own call
\* get the same response, whatever the other requests were.
C13_RequestsIsolated ==
    /\ \A r \in Requests : pc[r] = "responded" => response[r] = C13_Alone(apiKey, endpoint[r], body[r], remote[r])
    /\ \A r, q \in Requests :
           (/\ pc[r] = "responded" /\ pc[q] = "responded"
            /\ endpoint[r] = endpoint[q] /\ body[r] = body[q] /\ remote[r] = remote[q])
           => response[r] = response[q]

\* request 1 was answered from its fallback after request 2, with other texts,
\* had started and while request 2 was still waiting for its call
C13_Witness ==
    /\ pc[1] = "responded"
    /\ pc[2] = "awaiting"
    /\ endpoint[1] = "process-xlf"
    /\ endpoint[2] = "process-xlf"
    /\ remote[1] = Rejected
    /\ body[1].chunkTexts = Arr(<<Chars("Hello world")>>)
    /\ trace.lastTexts = <<Chars("a b"), Chars("")>>
    /\ response[1].body.translations.props = [k \in {toString(0)} |-> Chars("[FR_TRANSLATION_0]")]

-----------------------------------------------------------------------------
(* Claims about the order of the steps of one request. *)

\* the remote attempt of the request in flight has ended without a usable reply
C14_AttemptFailed ==
    \/ ~apiKey
    \/ /\ remote.k \notin {"none", "pending"}
       /\ IF endpoint = "process-xlf" THEN ~translateWithClaudeResume(remote).ok
          ELSE ~generateContextWithClaudeResume(remote).ok

\* what the response carries: the mapping or the block
C14_Payload == IF endpoint = "process-xlf" THEN response.body.translations ELSE response.body.translationContext

\* the payload the external model's reply gives, and the one the local fallback gives
C14_RemotePayload ==
    IF endpoint = "process-xlf" THEN translateWithClaudeResume(remote).value
    ELSE generateContextWithClaudeResume(remote).value

C14_LocalPayload ==
    IF endpoint = "process-xlf"
    THEN generateContextualFallbacks(PreprocessAll(body.chunkTexts.items), body.targetLang.chars, body.translationContext)
    ELSE LocalContext(body)

\* what holds in every state of a request
C14_State ==
    /\ trace.calls \in {0, 1}
    /\ trace.fallbacks \in {0, 1}
    /\ trace.calls = 1 <=> remote # NoCall
    /\ trace.calls = 1 => (trace.validated /\ apiKey)
    /\ trace.fallbacks = 1 => (trace.validated /\ C14_AttemptFailed)
    /\ response # NoResponse => (pc = "responded" /\ remote # Pending)
    /\ (pc = "responded" /\ response.status = 200) =>
           \/ trace.source = "remote" /\ trace.calls = 1 /\ trace.fallbacks = 0 /\ ~C14_AttemptFailed
              /\ C14_Payload = C14_RemotePayload
           \/ trace.source = "local" /\ trace.fallbacks = 1 /\ C14_AttemptFailed
              /\ C14_Payload = C14_LocalPayload
    /\ (pc = "responded" /\ response.status = 500) => (trace.calls = 0 /\ trace.fallbacks = 0 /\ ~trace.validated)

\* what holds of every step of a request
C14_Step ==
    /\ trace'.calls > trace.calls => (pc = "idle" /\ pc' = "awaiting" /\ trace'.validated /\ apiKey)
    /\ trace'.fallbacks > trace.fallbacks => ((pc = "idle" /\ ~apiKey) \/ (pc = "settled" /\ remote \notin {NoCall, Pending}))
    /\ (response = NoResponse /\ response' # NoResponse) => (trace.calls = 1 => pc = "settled")
    /\ pc = "awaiting" => (pc' = "settled" /\ response' = NoResponse /\ trace' = trace)

\* C14: while one request is handled, a pipeline issues at most one outbound
\* call, only after validation has passed and only with the API credential
\* present; it runs its local fallback only after the remote attempt has
\* failed; it responds only after the outbound call has completed or failed;
\* and the mapping or block it returns is the reply's or the fallback's, never
\* a mixture of the two.
C14_OrderOfSteps == []C14_State /\ [][C14_Step]_vars

C14_Witness ==
    /\ TranslationResponded
    /\ remote = BadStatus
    /\ trace.calls = 1
    /\ trace.fallbacks = 1
    /\ trace.source = "local"
    /\ response.status = 200

-----------------------------------------------------------------------------
(* Claims about the pattern analysis. *)

\* one of the words stands as a whole word in s
C15_Matches(s, words) == \E k \in 1..Len(words) : \E i \in 1..Len(s) : OccursAsWord(s, words[k], i)

\* C15: the four rule groups are evaluated in the order UI, technical,
\* educational, corporate over the lower-cased samples joined by a space.
\* Without a match the result is the default (content type
\* 'Educational/Training Content', tone 'Professional', audience 'Learners',
\* no considerations); each matching rule with tags appends them, in that
\* order; for content type, tone and audience the last matching rule that sets
\* the field decides, so that technical and corporate together give tone
\* 'Professional', audience 'Employees', content type 'Corporate Training'
\* and still the tag 'technical accuracy'.
C15_PatternRules ==
    (endpoint = "analysis" /\ pc = "once") =>
        LET content == toLowerCase(join(body.items, <<" ">>))
            ui == C15_Matches(content, UIWords)
            technical == C15_Matches(content, TechnicalWords)
            educational == C15_Matches(content, EducationalWords)
            corporate == C15_Matches(content, CorporateWords)
            a == local.analysis
        IN  /\ a.specialConsiderations =
                   (IF ui THEN <<Chars("UI elements"), Chars("interaction clarity")>> ELSE <<>>)
                   \o (IF technical THEN <<Chars("technical accuracy")>> ELSE <<>>)
                   \o (IF educational THEN <<Chars("learning flow")>> ELSE <<>>)
            /\ a.contentType = (IF corporate THEN Chars("Corporate Training")
                                ELSE IF educational THEN Chars("E-Learning Platform")
                                ELSE Chars("Educational/Training Content"))
            /\ a.recommendedTone = (IF corporate THEN Chars("Professional")
                                    ELSE IF technical THEN Chars("Technical")
                                    ELSE Chars("Professional"))
            /\ a.targetAudience = (IF corporate THEN Chars("Employees")
                                   ELSE IF technical THEN Chars("Technical Users")
                                   ELSE Chars("Learners"))
            /\ (~ui /\ ~technical /\ ~educational /\ ~corporate) =>
                   a = [contentType |-> Chars("Educational/Training Content"), recommendedTone |-> Chars("Professional"),
                        targetAudience |-> Chars("Learners"), specialConsiderations |-> <<>>]
            /\ (technical /\ corporate) =>
                   /\ a.recommendedTone = Chars("Professional")
                   /\ a.targetAudience = Chars("Employees")
                   /\ a.contentType = Chars("Corporate Training")
                   /\ \E k \in 1..Len(a.specialConsiderations) : a.specialConsiderations[k] = Chars("technical accuracy")

C15_Witness ==
    /\ endpoint = "analysis"
    /\ pc = "once"
    /\ body = Arr(<<Chars("Team"), Chars("SERVER setup")>>)
    /\ local.analysis = [contentType |-> Chars("Corporate Training"), recommendedTone |-> Chars("Professional"),
                         targetAudience |-> Chars("Employees"), specialConsiderations |-> <<Chars("technical accuracy")>>]

-----------------------------------------------------------------------------
(* Claims about the statistics of the TranslationResult. *)

\* the Prompt Builder takes its with-context branch for the request's guidance
C16_PromptWithContext ==
    buildTranslationPrompt(PreprocessAll(body.chunkTexts.items), Default(body.sourceLang, Str(Chars("en"))).chars,
                           body.targetLang.chars, body.translationContext).withContext

\* C16 as stated: in every TranslationResult stats.textsProcessed is
\* chunkTexts.length, stats.realTranslations is the number of entries of the
\* translations mapping, and stats.contextualTranslation is true exactly when
\* the Prompt Builder takes its with-context branch for the request's
\* translationContext, be it absent, empty or white space only.
C16_Original ==
    (TranslationResponded /\ response.status = 200) =>
        LET stats == response.body.stats
            m == response.body.translations
        IN  /\ stats.textsProcessed = Len(body.chunkTexts.items)
            /\ stats.realTranslations = (IF m.t = "object" THEN Cardinality(DOMAIN m.props) ELSE 0)
            /\ stats.contextualTranslation <=> C16_PromptWithContext

====
